---- MODULE Spec2Model ----
(***************************************************************************)
(* Model of src/static/dashboard.js: the dashboard's request/render flows, *)
(* its tab switching, its chart registry and its tweet-id extraction.      *)
(*                                                                         *)
(* A JavaScript string is a sequence of one-character strings, so that     *)
(* the regular expression of extractTweetId is matched character by        *)
(* character.  A handler runs to completion up to its next await, so one   *)
(* action is one handler segment between two awaits.                       *)
(***************************************************************************)
EXTENDS Naturals, Sequences, FiniteSets

\* ------------------------------------------------------------------ bounds

\* Number of clicks of the user (tab selectors and flow buttons).
MaxClicks == 2

\* Number of tokens an input of the extraction specification is built from.
MaxTokens == 4

\* ------------------------------------------------------------ text helpers

Digits == {"0", "1", "2", "3", "4", "5", "6", "7", "8", "9"}

\* The literal prefix of the regular expression /status\/(\d+)/.
StatusSlash == <<"s", "t", "a", "t", "u", "s", "/">>

IsDigitAt(s, i) == i \in 1..Len(s) /\ s[i] \in Digits

\* The regular expression matches at position i: "status/" and one digit.
MatchesAt(s, i) ==
    /\ i >= 1
    /\ i + Len(StatusSlash) <= Len(s)
    /\ SubSeq(s, i, i + Len(StatusSlash) - 1) = StatusSlash
    /\ IsDigitAt(s, i + Len(StatusSlash))

\* Last index of the greedy digit run (\d+) that starts at index from.
RECURSIVE DigitRunEnd(_, _)
DigitRunEnd(s, from) ==
    IF IsDigitAt(s, from + 1) THEN DigitRunEnd(s, from + 1) ELSE from

\* A variant of the pattern, /status\/(\d*)/: the digit is optional.
extractTweetId_optionalDigits(input) ==
    LET hits == {i \in 1..Len(input) :
                    /\ i + Len(StatusSlash) - 1 <= Len(input)
                    /\ SubSeq(input, i, i + Len(StatusSlash) - 1) = StatusSlash}
    IN  IF hits = {} THEN input
        ELSE LET i == CHOOSE h \in hits : \A g \in hits : h <= g
                 first == i + Len(StatusSlash)
             IN  IF IsDigitAt(input, first)
                 THEN SubSeq(input, first, DigitRunEnd(input, first))
                 ELSE <<>>

\* input.match(/status\/(\d+)/): leftmost match, group 1; else the input.
extractTweetId(input) ==
    LET hits == {i \in 1..Len(input) : MatchesAt(input, i)}
    IN  IF hits = {} THEN input
        ELSE LET i == CHOOSE h \in hits : \A g \in hits : h <= g
                 first == i + Len(StatusSlash)
             IN  SubSeq(input, first, DigitRunEnd(input, first))

\* Pieces the inputs of the extraction specification are concatenated from.
Tokens == {StatusSlash, <<"s", "t", "a", "t", "u", "s">>, <<"1">>, <<"2">>,
           <<"x">>, <<"/">>}

RECURSIVE Concat(_)
Concat(ts) == IF ts = <<>> THEN <<>> ELSE Head(ts) \o Concat(Tail(ts))

TokenInputs ==
    {Concat(ts) : ts \in UNION {[1..n -> Tokens] : n \in 0..MaxTokens}}

\* --------------------------------------------------------------- the page

\* The request/render flows, one per async function of the file.
Flows == {"profile", "tweets", "reply", "compareUsers", "compareTweets",
          "search", "test"}

\* The flows that have a loading indicator and an error region.
ErrFlows == Flows \ {"test"}

LoadingId == [profile |-> "profileLoading", tweets |-> "tweetsLoading",
              reply |-> "replyLoading",
              compareUsers |-> "compareUsersLoading",
              compareTweets |-> "compareTweetsLoading",
              search |-> "searchLoading"]

ErrorId == [profile |-> "profileError", tweets |-> "tweetsError",
            reply |-> "replyError", compareUsers |-> "compareUsersError",
            compareTweets |-> "compareTweetsError",
            search |-> "searchError"]

ResultsId == [profile |-> "profileResults", tweets |-> "tweetsResults",
              reply |-> "replyResults",
              compareUsers |-> "compareUsersResults",
              compareTweets |-> "compareTweetsResults",
              search |-> "searchResults", test |-> "testResults"]

ValidationMessage ==
    [profile |-> "Please enter a username",
     tweets |-> "Please enter a username",
     reply |-> "Please enter a tweet ID or URL",
     compareUsers |-> "Please enter both usernames",
     compareTweets |-> "Please enter both tweet IDs",
     search |-> "Please enter a search query"]

ErrorIds == {ErrorId[f] : f \in ErrFlows}

ResultIds == {ResultsId[f] : f \in Flows}

\* The canvas identifiers createChart is called with.
Canvases == {"tweetsChart", "engagementChart", "replyChart",
             "profileCompareChart", "sentimentCompareChart",
             "tweetCompareChart", "searchPieChart", "searchEngagementChart"}

\* The named tabs: 'reply-analysis' is the one the file names; the page's
\* markup defines the others and which one starts active.
Tabs == {"user-profile", "user-tweets", "reply-analysis"}

InitialTab == "user-profile"

\* What a result region's innerHTML holds: which template wrote it (view),
\* the interpolated request value (who) and payload text (text), the branch
\* of the template (part), the <canvas> ids and the 'Analyze Replies'
\* buttons (the tweet ids of their onclick) it contains.
Html(view, who, text, part, canvases, buttons) ==
    [view |-> view, who |-> who, text |-> text, part |-> part,
     canvases |-> canvases, buttons |-> buttons]

EmptyHtml == Html("", <<>>, "", "", {}, {})

\* ------------------------------------------------------- backend responses

\* Values the backend's free-text fields take.
Texts == {"p"}

\* Values of the error field of a success=false response.
BackendErrors == {"X"}

\* error.message of a rejected fetch, of a rejected response.json(), and of
\* the TypeError a template or createChart raises on a missing value.
TransportMessage == "Failed to fetch"

ParseMessage == "Unexpected token"

TypeErrorMessage == "Cannot read properties"

\* One parsed response.  body: the objects the flow's template interpolates
\* are present; charts: the charts field is absent, present without its
\* optional series, or present with them; count: reply_analysis.total_replies
\* (reply flow), number of categorized sample tweets (tweets flow).
Response(success, error, text, body, charts, count) ==
    [success |-> success, error |-> error, text |-> text, body |-> body,
     charts |-> charts, count |-> count]

NoData == Response(FALSE, "", "", FALSE, "absent", 0)

ChartShapes(f) ==
    CASE f \in {"tweets", "reply", "search"} -> {"absent", "empty", "full"}
      [] f \in {"compareUsers", "compareTweets"} -> {"absent", "full"}
      [] OTHER -> {"absent"}

Counts(f) == IF f \in {"tweets", "reply"} THEN {0, 1} ELSE {0}

Responses(f) ==
    {Response(FALSE, e, "", FALSE, "absent", 0) : e \in BackendErrors}
    \cup {Response(TRUE, "", t, FALSE, "absent", 0) : t \in Texts}
    \cup {Response(TRUE, "", t, TRUE, ch, n) :
            t \in Texts, ch \in ChartShapes(f), n \in Counts(f)}

\* The id of the sample tweet a tweets response carries when count > 0.
SampleTweetId == <<"7">>

\* ------------------------------------------------------------ user inputs

Usernames == {<<>>, <<"a">>, <<"b">>}

TweetInputs == {<<>>, <<"7">>, <<"x", "/">> \o StatusSlash \o <<"7">>}

Queries == {<<>>, <<"q">>}

\* ------------------------------------------------------------------ state

VARIABLES
    activePanels,    \* tab names t whose panel t-tab has class 'active'
    activeTabs,      \* tab names whose .tab selector has class 'active'
    btnActive,       \* an 'Analyze Replies' button has class 'active'
    active,          \* ids of loading/error/result elements with 'active'
    textContent,     \* error element id -> its textContent
    innerHTML,       \* result element id -> its innerHTML
    chartInstances,  \* canvas id -> index in charts, 0 when undefined
    charts,          \* the Chart objects constructed, in construction order
    calls,           \* suspended async calls: [id, flow, arg]
    clicks,          \* number of clicks made
    requests,        \* number of fetch() calls made
    console,         \* number of console.error() calls made
    lastEvent,       \* history: the handler segment that ran last
    finished,        \* history: [id, flow] of the calls that have returned
    lastTab,         \* history: the tab name of the last switchTab
    tin,             \* extraction specification: the input
    tout             \* extraction specification: the successive results

domVars == <<activePanels, activeTabs, btnActive, active, textContent,
             innerHTML, chartInstances, charts, console>>

flowVars == <<calls, clicks, requests, lastEvent, finished, lastTab>>

extractVars == <<tin, tout>>

vars == <<domVars, flowVars, extractVars>>

\* The page and the registry as one value, threaded through a handler's
\* statements in program order.  threw/msg: an exception is propagating.
Dom ==
    [activePanels |-> activePanels, activeTabs |-> activeTabs,
     btnActive |-> btnActive, active |-> active,
     textContent |-> textContent, innerHTML |-> innerHTML,
     chartInstances |-> chartInstances, charts |-> charts,
     console |-> console, threw |-> FALSE, msg |-> ""]

Commit(d) ==
    /\ activePanels' = d.activePanels
    /\ activeTabs' = d.activeTabs
    /\ btnActive' = d.btnActive
    /\ active' = d.active
    /\ textContent' = d.textContent
    /\ innerHTML' = d.innerHTML
    /\ chartInstances' = d.chartInstances
    /\ charts' = d.charts
    /\ console' = d.console

Throw(d, m) == [d EXCEPT !.threw = TRUE, !.msg = m]

\* ------------------------------------------------------------ DOM helpers

\* target: the element window.event.target names, a .tab selector
\* [tab |-> name] or an 'Analyze Replies' button [tab |-> ""].
switchTab(d, tabName, target) ==
    [d EXCEPT !.activePanels = (@ \ Tabs) \cup {tabName},
              !.activeTabs = (@ \ Tabs) \cup
                             (IF target.tab = "" THEN {} ELSE {target.tab}),
              !.btnActive = IF target.tab = "" THEN TRUE ELSE @]

showLoading(d, id) == [d EXCEPT !.active = @ \cup {id}]

\* A variant of hideLoading that adds the class instead of removing it.
hideLoading_adds(d, id) == [d EXCEPT !.active = @ \cup {id}]

hideLoading(d, id) == [d EXCEPT !.active = @ \ {id}]

showError(d, id, message) ==
    [d EXCEPT !.textContent[id] = message, !.active = @ \cup {id}]

hideError(d, id) == [d EXCEPT !.active = @ \ {id}]

showResults(d, id) == [d EXCEPT !.active = @ \cup {id}]

hideResults(d, id) == [d EXCEPT !.active = @ \ {id}]

\* element.innerHTML = html; replacing the tweets markup replaces its buttons.
SetInnerHTML(d, id, html) ==
    [d EXCEPT !.innerHTML[id] = html,
              !.btnActive = IF id = "tweetsResults" THEN FALSE ELSE @]

\* document.getElementById(canvasId) finds a canvas of the current markup.
CanvasInDom(d, canvasId) ==
    \E r \in ResultIds : canvasId \in d.innerHTML[r].canvases

\* ----------------------------------------------------------------- charts

\* Chart.prototype.destroy() of the charting library.
Destroy(d, n) == [d EXCEPT !.charts[n].destroyed = TRUE]

\* A variant of createChart that does not destroy the registered chart.
createChart_noDestroy(d, canvasId, type) ==
    IF ~CanvasInDom(d, canvasId) THEN Throw(d, TypeErrorMessage)
    ELSE [d EXCEPT
            !.charts = Append(@, [canvas |-> canvasId, type |-> type,
                                  destroyed |-> FALSE]),
            !.chartInstances[canvasId] = Len(d.charts) + 1]

createChart(d, canvasId, type) ==
    LET d1 == IF d.chartInstances[canvasId] # 0
              THEN Destroy(d, d.chartInstances[canvasId])
              ELSE d
    IN  IF ~CanvasInDom(d1, canvasId) THEN Throw(d1, TypeErrorMessage)
        ELSE [d1 EXCEPT
                !.charts = Append(@, [canvas |-> canvasId, type |-> type,
                                      destroyed |-> FALSE]),
                !.chartInstances[canvasId] = Len(d1.charts) + 1]

\* ------------------------------------------------------- render functions

displayUserProfile(d, data) ==
    IF ~data.body THEN Throw(d, TypeErrorMessage)
    ELSE showResults(
            SetInnerHTML(d, "profileResults",
                         Html("profile", <<>>, data.text, "", {}, {})),
            "profileResults")

displayUserTweets(d, data, username) ==
    IF ~data.body THEN Throw(d, TypeErrorMessage)
    ELSE
      LET html == Html("tweets", username, data.text, "",
                       {"tweetsChart", "engagementChart"},
                       IF data.count > 0 THEN {SampleTweetId} ELSE {})
          d1 == showResults(SetInnerHTML(d, "tweetsResults", html),
                            "tweetsResults")
      IN  IF data.charts = "absent" THEN Throw(d1, TypeErrorMessage)
          ELSE LET d2 == createChart(d1, "tweetsChart", "pie")
               IN  IF d2.threw \/ data.charts # "full" THEN d2
                   ELSE createChart(d2, "engagementChart", "bar")

displayReplyAnalysis(d, data) ==
    IF ~data.body THEN Throw(d, TypeErrorMessage)
    ELSE
      LET html == IF data.count > 0
                  THEN Html("reply", <<>>, data.text, "stats",
                            {"replyChart"}, {})
                  ELSE Html("reply", <<>>, data.text, "no-replies", {}, {})
          d1 == showResults(SetInnerHTML(d, "replyResults", html),
                            "replyResults")
      IN  IF data.charts = "full"
          THEN createChart(d1, "replyChart", "pie")
          ELSE d1

displayUserComparison(d, data) ==
    IF ~data.body THEN Throw(d, TypeErrorMessage)
    ELSE
      LET html == Html("compareUsers", <<>>, data.text, "",
                       {"profileCompareChart", "sentimentCompareChart"}, {})
          d1 == showResults(SetInnerHTML(d, "compareUsersResults", html),
                            "compareUsersResults")
      IN  IF data.charts = "absent" THEN Throw(d1, TypeErrorMessage)
          ELSE LET d2 == createChart(d1, "profileCompareChart", "bar")
               IN  IF d2.threw THEN d2
                   ELSE createChart(d2, "sentimentCompareChart", "bar")

displayTweetComparison(d, data) ==
    IF ~data.body THEN Throw(d, TypeErrorMessage)
    ELSE
      LET html == Html("compareTweets", <<>>, data.text, "",
                       {"tweetCompareChart"}, {})
          d1 == showResults(SetInnerHTML(d, "compareTweetsResults", html),
                            "compareTweetsResults")
      IN  IF data.charts = "absent" THEN Throw(d1, TypeErrorMessage)
          ELSE createChart(d1, "tweetCompareChart", "bar")

displaySearchResults(d, data) ==
    IF ~data.body THEN Throw(d, TypeErrorMessage)
    ELSE
      LET html == Html("search", <<>>, data.text, "",
                       {"searchPieChart", "searchEngagementChart"}, {})
          d1 == showResults(SetInnerHTML(d, "searchResults", html),
                            "searchResults")
      IN  IF data.charts = "absent" THEN Throw(d1, TypeErrorMessage)
          ELSE LET d2 == createChart(d1, "searchPieChart", "pie")
               IN  IF d2.threw \/ data.charts # "full" THEN d2
                   ELSE createChart(d2, "searchEngagementChart", "bar")

\* The display call in the success branch of each flow's handler.
Display(d, c, data) ==
    CASE c.flow = "profile" -> displayUserProfile(d, data)
      [] c.flow = "tweets" -> displayUserTweets(d, data, c.arg[1])
      [] c.flow = "reply" -> displayReplyAnalysis(d, data)
      [] c.flow = "compareUsers" -> displayUserComparison(d, data)
      [] c.flow = "compareTweets" -> displayTweetComparison(d, data)
      [] c.flow = "search" -> displaySearchResults(d, data)

\* ----------------------------------------------------------- flow skeleton

\* History record of one handler segment.  op: "tab" (tab click), "empty"
\* (validation stopped the handler), "start" (request issued),
\* "reject" (fetch rejected), "badjson" (response.json() rejected), "json"
\* (response parsed and handled).
Event(op, flow, id, arg, data, msg, caught) ==
    [op |-> op, flow |-> flow, id |-> id, arg |-> arg, data |-> data,
     msg |-> msg, caught |-> caught]

Call(id, flow, arg) == [id |-> id, flow |-> flow, arg |-> arg]

\* A variant of the validation branch without its return: the handler
\* shows the message and goes on to issue the request.
Invalid_noReturn(d, f) ==
    /\ Commit(hideResults(hideError(showLoading(
                  showError(d, ErrorId[f], <<ValidationMessage[f]>>),
                  LoadingId[f]), ErrorId[f]), ResultsId[f]))
    /\ requests' = requests + 1
    /\ calls' = calls \cup {Call(requests + 1, f, <<>>)}
    /\ lastEvent' = Event("empty", f, 0, <<>>, NoData, "", FALSE)
    /\ UNCHANGED <<finished, extractVars>>

\* The validation branch: showError(...); return.
Invalid(d, f) ==
    /\ Commit(showError(d, ErrorId[f], <<ValidationMessage[f]>>))
    /\ lastEvent' = Event("empty", f, 0, <<>>, NoData, "", FALSE)
    /\ UNCHANGED <<calls, requests, finished, extractVars>>

\* showLoading, hideError, hideResults, then fetch(...) up to its await.
Begin(d, f, arg) ==
    /\ Commit(hideResults(hideError(showLoading(d, LoadingId[f]),
                                    ErrorId[f]),
                          ResultsId[f]))
    /\ requests' = requests + 1
    /\ calls' = calls \cup {Call(requests + 1, f, arg)}
    /\ lastEvent' = Event("start", f, requests + 1, arg, NoData, "", FALSE)
    /\ UNCHANGED <<finished, extractVars>>

\* The catch block of the six flows.
FlowCatch(d, f, m) ==
    showError(hideLoading([d EXCEPT !.threw = FALSE, !.msg = ""],
                          LoadingId[f]),
              ErrorId[f], <<"Error: ", m>>)

\* A call of c's flow issued after c exists (in flight or returned).
Superseded(c) ==
    \/ \E k \in calls : k.flow = c.flow /\ k.id > c.id
    \/ \E k \in finished : k.flow = c.flow /\ k.id > c.id

\* A variant of the try block that ignores the response of a superseded call.
FlowTry_ignoresSuperseded(d, c, data) ==
    IF Superseded(c) THEN d
    ELSE LET d1 == hideLoading(d, LoadingId[c.flow])
         IN  IF data.success THEN Display(d1, c, data)
             ELSE showError(d1, ErrorId[c.flow], <<data.error>>)

\* A variant of the try block that reports data.error with the prefix of
\* the catch block.
FlowTry_prefixesError(d, c, data) ==
    LET d1 == hideLoading(d, LoadingId[c.flow])
    IN  IF data.success THEN Display(d1, c, data)
        ELSE showError(d1, ErrorId[c.flow], <<"Error: ", data.error>>)

\* The try block of the six flows from `const data = await response.json()`.
FlowTry(d, c, data) ==
    LET d1 == hideLoading(d, LoadingId[c.flow])
    IN  IF data.success THEN Display(d1, c, data)
        ELSE showError(d1, ErrorId[c.flow], <<data.error>>)

Return(c) ==
    /\ calls' = calls \ {c}
    /\ finished' = finished \cup {[id |-> c.id, flow |-> c.flow]}
    /\ UNCHANGED <<clicks, requests, lastTab, extractVars>>

\* ---------------------------------------------------------- user's actions

\* A click on a tab selector, whose onclick names the selector's own tab.
ClickTab ==
    \E t \in Tabs :
        /\ clicks < MaxClicks
        /\ clicks' = clicks + 1
        /\ Commit(switchTab(Dom, t, [tab |-> t]))
        /\ lastTab' = t
        /\ lastEvent' = Event("tab", "", 0, <<>>, NoData, "", FALSE)
        /\ UNCHANGED <<calls, requests, finished, extractVars>>

getUserProfile ==
    /\ clicks < MaxClicks
    /\ clicks' = clicks + 1
    /\ \E username \in Usernames :
          IF username = <<>> THEN Invalid(Dom, "profile")
          ELSE Begin(Dom, "profile", <<username>>)
    /\ UNCHANGED lastTab

getUserTweets ==
    /\ clicks < MaxClicks
    /\ clicks' = clicks + 1
    /\ \E username \in Usernames :
          IF username = <<>> THEN Invalid(Dom, "tweets")
          ELSE Begin(Dom, "tweets", <<username>>)
    /\ UNCHANGED lastTab

\* d: the page when analyzeReplies is entered; input: replyTweetId's value.
analyzeReplies(d, input) ==
    LET tweetId == extractTweetId(input)
    IN  IF tweetId = <<>> THEN Invalid(d, "reply")
        ELSE Begin(d, "reply", <<tweetId>>)

AnalyzeRepliesClick ==
    /\ clicks < MaxClicks
    /\ clicks' = clicks + 1
    /\ \E input \in TweetInputs : analyzeReplies(Dom, input)
    /\ UNCHANGED lastTab

\* A click on an 'Analyze Replies' button of the shown tweets result.
analyzeSpecificTweet ==
    /\ clicks < MaxClicks
    /\ clicks' = clicks + 1
    /\ "tweetsResults" \in active
    /\ \E tweetId \in innerHTML["tweetsResults"].buttons :
          analyzeReplies(switchTab(Dom, "reply-analysis", [tab |-> ""]),
                         tweetId)
    /\ lastTab' = "reply-analysis"

compareUsers ==
    /\ clicks < MaxClicks
    /\ clicks' = clicks + 1
    /\ \E user1 \in {<<>>, <<"a">>}, user2 \in {<<>>, <<"b">>} :
          IF user1 = <<>> \/ user2 = <<>>
          THEN Invalid(Dom, "compareUsers")
          ELSE Begin(Dom, "compareUsers", <<user1, user2>>)
    /\ UNCHANGED lastTab

compareTweets ==
    /\ clicks < MaxClicks
    /\ clicks' = clicks + 1
    /\ \E in1 \in TweetInputs, in2 \in {<<>>, <<"9">>} :
          LET tweet1 == extractTweetId(in1)
              tweet2 == extractTweetId(in2)
          IN  IF tweet1 = <<>> \/ tweet2 = <<>>
              THEN Invalid(Dom, "compareTweets")
              ELSE Begin(Dom, "compareTweets", <<tweet1, tweet2>>)
    /\ UNCHANGED lastTab

searchAndAnalyze ==
    /\ clicks < MaxClicks
    /\ clicks' = clicks + 1
    /\ \E query \in Queries :
          IF query = <<>> THEN Invalid(Dom, "search")
          ELSE Begin(Dom, "search", <<query>>)
    /\ UNCHANGED lastTab

\* A variant of testSentiment that reports the empty text like the others.
testSentiment_showsError ==
    /\ clicks < MaxClicks
    /\ clicks' = clicks + 1
    /\ \E text \in Queries :
          IF text = <<>>
          THEN /\ active' = active \cup {"testError"}
               /\ lastEvent' = Event("empty", "test", 0, <<>>, NoData, "",
                                     FALSE)
               /\ UNCHANGED <<activePanels, activeTabs, btnActive,
                              textContent, innerHTML, chartInstances,
                              charts, console, calls, requests, finished,
                              extractVars>>
          ELSE /\ requests' = requests + 1
               /\ calls' = calls \cup
                           {Call(requests + 1, "test", <<text>>)}
               /\ lastEvent' = Event("start", "test", requests + 1,
                                     <<text>>, NoData, "", FALSE)
               /\ UNCHANGED <<domVars, finished, extractVars>>
    /\ UNCHANGED lastTab

testSentiment ==
    /\ clicks < MaxClicks
    /\ clicks' = clicks + 1
    /\ \E text \in Queries :
          IF text = <<>>
          THEN /\ lastEvent' = Event("empty", "test", 0, <<>>, NoData, "",
                                     FALSE)
               /\ UNCHANGED <<domVars, calls, requests, finished,
                              extractVars>>
          ELSE /\ requests' = requests + 1
               /\ calls' = calls \cup
                           {Call(requests + 1, "test", <<text>>)}
               /\ lastEvent' = Event("start", "test", requests + 1,
                                     <<text>>, NoData, "", FALSE)
               /\ UNCHANGED <<domVars, finished, extractVars>>
    /\ UNCHANGED lastTab

\* ------------------------------------------------------------ resumptions
\* No statement runs between the fulfilment of `await fetch(...)` and
\* `await response.json()`, so a suspended call resumes in one of three
\* ways: fetch rejects, response.json() rejects, or the data is there.

\* A variant of the catch path that issues the request again.
FlowFetchRejected_retries ==
    \E c \in calls :
        /\ c.flow \in ErrFlows
        /\ requests <= MaxClicks
        /\ Commit(FlowCatch(Dom, c.flow, TransportMessage))
        /\ requests' = requests + 1
        /\ lastEvent' = Event("reject", c.flow, c.id, c.arg, NoData,
                              TransportMessage, TRUE)
        /\ calls' = (calls \ {c}) \cup {Call(requests + 1, c.flow, c.arg)}
        /\ finished' = finished \cup {[id |-> c.id, flow |-> c.flow]}
        /\ UNCHANGED <<clicks, lastTab, extractVars>>

\* `await fetch(...)` rejects in one of the six flows: the catch block.
FlowFetchRejected ==
    \E c \in calls :
        /\ c.flow \in ErrFlows
        /\ Commit(FlowCatch(Dom, c.flow, TransportMessage))
        /\ lastEvent' = Event("reject", c.flow, c.id, c.arg, NoData,
                              TransportMessage, TRUE)
        /\ Return(c)

\* `await response.json()` rejects in one of the six flows: the catch block.
FlowJsonRejected ==
    \E c \in calls :
        /\ c.flow \in ErrFlows
        /\ Commit(FlowCatch(Dom, c.flow, ParseMessage))
        /\ lastEvent' = Event("badjson", c.flow, c.id, c.arg, NoData,
                              ParseMessage, TRUE)
        /\ Return(c)

\* `await response.json()` fulfils in one of the six flows: the rest of the
\* try block, and the catch block when the rendering throws.
FlowJsonFulfilled ==
    \E c \in calls :
        /\ c.flow \in ErrFlows
        /\ \E data \in Responses(c.flow) :
              LET t == FlowTry(Dom, c, data)
              IN  /\ Commit(IF t.threw THEN FlowCatch(t, c.flow, t.msg)
                            ELSE t)
                  /\ lastEvent' = Event("json", c.flow, c.id, c.arg, data,
                                        t.msg, t.threw)
        /\ Return(c)

\* testSentiment's catch block: console.error('Error:', error).
testSentimentCatch(d) ==
    [d EXCEPT !.threw = FALSE, !.msg = "", !.console = @ + 1]

\* fetch or response.json() rejects in testSentiment.
testSentimentRejected ==
    \E c \in calls :
        /\ c.flow = "test"
        /\ Commit(testSentimentCatch(Dom))
        /\ \E op \in {"reject", "badjson"} :
              lastEvent' = Event(op, "test", c.id, c.arg, NoData,
                                 IF op = "reject" THEN TransportMessage
                                 ELSE ParseMessage,
                                 TRUE)
        /\ Return(c)

\* testSentiment's try block from `const data = await response.json()`.
testSentimentTry(d, data) ==
    IF ~data.success THEN d
    ELSE IF ~data.body THEN Throw(d, TypeErrorMessage)
    ELSE showResults(
            SetInnerHTML(d, "testResults",
                         Html("test", <<>>, data.text, "", {}, {})),
            "testResults")

testSentimentFulfilled ==
    \E c \in calls :
        /\ c.flow = "test"
        /\ \E data \in Responses("test") :
              LET t == testSentimentTry(Dom, data)
              IN  /\ Commit(IF t.threw THEN testSentimentCatch(t) ELSE t)
                  /\ lastEvent' = Event("json", "test", c.id, c.arg, data,
                                        t.msg, t.threw)
        /\ Return(c)

\* ---------------------------------------------------------- specification

Init ==
    /\ activePanels = {InitialTab}
    /\ activeTabs = {InitialTab}
    /\ btnActive = FALSE
    /\ active = {}
    /\ textContent = [id \in ErrorIds |-> <<>>]
    /\ innerHTML = [id \in ResultIds |-> EmptyHtml]
    /\ chartInstances = [c \in Canvases |-> 0]
    /\ charts = <<>>
    /\ console = 0
    /\ calls = {}
    /\ clicks = 0
    /\ requests = 0
    /\ lastEvent = Event("init", "", 0, <<>>, NoData, "", FALSE)
    /\ finished = {}
    /\ lastTab = InitialTab
    /\ tin = <<>>
    /\ tout = <<>>

Next ==
    \/ ClickTab
    \/ getUserProfile
    \/ getUserTweets
    \/ AnalyzeRepliesClick
    \/ analyzeSpecificTweet
    \/ compareUsers
    \/ compareTweets
    \/ searchAndAnalyze
    \/ testSentiment
    \/ FlowFetchRejected
    \/ FlowJsonRejected
    \/ FlowJsonFulfilled
    \/ testSentimentRejected
    \/ testSentimentFulfilled

Spec == Init /\ [][Next]_vars

\* ------------------------------------------- extraction specification

\* extractTweetId applied to an input, then to its own result.
ApplyExtract ==
    /\ Len(tout) < 2
    /\ tout' = Append(tout, extractTweetId(IF tout = <<>> THEN tin
                                           ELSE tout[Len(tout)]))
    /\ UNCHANGED <<domVars, flowVars, tin>>

InitExtract ==
    /\ activePanels = {InitialTab}
    /\ activeTabs = {InitialTab}
    /\ btnActive = FALSE
    /\ active = {}
    /\ textContent = [id \in ErrorIds |-> <<>>]
    /\ innerHTML = [id \in ResultIds |-> EmptyHtml]
    /\ chartInstances = [c \in Canvases |-> 0]
    /\ charts = <<>>
    /\ console = 0
    /\ calls = {}
    /\ clicks = 0
    /\ requests = 0
    /\ lastEvent = Event("init", "", 0, <<>>, NoData, "", FALSE)
    /\ finished = {}
    /\ lastTab = InitialTab
    /\ tin \in TokenInputs
    /\ tout = <<>>

NextExtract == ApplyExtract

SpecExtract == InitExtract /\ [][NextExtract]_vars

\* ------------------------------------------------------------------ claims

\* The charts constructed for canvas c, and those of them not destroyed.
ChartsMadeFor(c) == {n \in 1..Len(charts) : charts[n].canvas = c}

LiveChartsFor(c) == {n \in ChartsMadeFor(c) : ~charts[n].destroyed}

\* C1: for every canvas identifier at most one chart constructed for it is
\* live; every chart constructed for it but the most recent one has been
\* destroyed; and the registry entry is the most recently constructed chart
\* (undefined when none was constructed).
C1_OneLiveChartPerCanvas ==
    \A c \in Canvases :
        /\ Cardinality(LiveChartsFor(c)) <= 1
        /\ \A n \in ChartsMadeFor(c) :
              \/ charts[n].destroyed
              \/ \A m \in ChartsMadeFor(c) : m <= n
        /\ IF ChartsMadeFor(c) = {} THEN chartInstances[c] = 0
           ELSE /\ chartInstances[c] \in ChartsMadeFor(c)
                /\ \A m \in ChartsMadeFor(c) : m <= chartInstances[c]

\* Two charts were constructed for one canvas: the first is destroyed, the
\* second is live and registered.
C1_Witness ==
    \E c \in Canvases :
        \E n \in ChartsMadeFor(c) :
            /\ charts[n].destroyed
            /\ chartInstances[c] > n
            /\ ~charts[chartInstances[c]].destroyed

\* C2 (as stated): in every flow, a handler run stopped by an empty required
\* input issues no request and leaves a validation message visible in the
\* flow's error region.
C2_EmptyInputShowsMessageInEveryFlow ==
    [][lastEvent'.op = "empty" =>
        /\ requests' = requests
        /\ calls' = calls
        /\ lastEvent'.flow \in ErrFlows
        /\ ErrorId[lastEvent'.flow] \in active'
        /\ textContent'[ErrorId[lastEvent'.flow]]
              = <<ValidationMessage[lastEvent'.flow]>>]_vars

\* C2 (amended): in the six flows that have an error region, a handler run
\* stopped by an empty required input issues no request and leaves the
\* flow's validation message visible in its error region; the sentiment
\* test with an empty text issues no request and changes no region.
C2_EmptyInputNoRequest ==
    [][lastEvent'.op = "empty" =>
        /\ requests' = requests
        /\ calls' = calls
        /\ IF lastEvent'.flow \in ErrFlows
           THEN /\ ErrorId[lastEvent'.flow] \in active'
                /\ textContent'[ErrorId[lastEvent'.flow]]
                      = <<ValidationMessage[lastEvent'.flow]>>
           ELSE UNCHANGED <<active, textContent, innerHTML>>]_vars

\* The tweet comparison was triggered with an empty identifier.
C2_Witness ==
    /\ lastEvent.op = "empty"
    /\ lastEvent.flow = "compareTweets"
    /\ "compareTweetsError" \in active
    /\ textContent["compareTweetsError"] = <<"Please enter both tweet IDs">>
    /\ calls = {}

\* The step handled a success=false response.
HandledFailure == lastEvent'.op = "json" /\ ~lastEvent'.data.success

C4_ExactlyOneActiveTab ==
    /\ Cardinality(activePanels) = 1
    /\ Cardinality(activeTabs) = 1
    /\ activePanels = {lastTab}

\* The step handled a well-formed successful reply response whose
\* reply_analysis.total_replies is 0.
HandledNoReplies ==
    /\ lastEvent'.op = "json"
    /\ lastEvent'.flow = "reply"
    /\ lastEvent'.data.success
    /\ lastEvent'.data.body
    /\ lastEvent'.data.count = 0

\* C5: handling a successful reply response with total_replies = 0,
\* whatever its charts field, renders the no-replies message, creates no
\* chart, shows the result and raises no error.
C5_NoRepliesNoChartNoError ==
    [][HandledNoReplies =>
        /\ innerHTML'["replyResults"].part = "no-replies"
        /\ Len(charts') = Len(charts)
        /\ "replyResults" \in active'
        /\ ~lastEvent'.caught
        /\ textContent' = textContent
        /\ "replyError" \in active' => "replyError" \in active]_vars

\* The step resumed a suspended call that then returned.
Completion == lastEvent'.op \in {"reject", "badjson", "json"}

\* C6: a suspended call leaves the set of calls in flight only by its own
\* completion (triggering the flow again cancels nothing), and a call that
\* completes with a renderable success response leaves its own content in
\* the feature's result region, whichever call of the feature was issued
\* last.
C6_LastCompletionWins ==
    [][/\ \A c \in calls :
             c \notin calls' => Completion /\ lastEvent'.id = c.id
       /\ (/\ lastEvent'.op = "json"
           /\ lastEvent'.flow \in ErrFlows
           /\ lastEvent'.data.success
           /\ lastEvent'.data.body)
          => /\ innerHTML'[ResultsId[lastEvent'.flow]].view = lastEvent'.flow
             /\ innerHTML'[ResultsId[lastEvent'.flow]].text
                   = lastEvent'.data.text
             /\ lastEvent'.flow = "tweets"
                   => innerHTML'["tweetsResults"].who = lastEvent'.arg[1]
             /\ ResultsId[lastEvent'.flow] \in active']_vars

\* Two tweets calls were in flight together; the one issued second returned
\* first, and the one issued first has now rendered its own username.
C6_Witness ==
    /\ lastEvent.op = "json"
    /\ lastEvent.flow = "tweets"
    /\ lastEvent.data.success /\ lastEvent.data.body
    /\ lastEvent.id = 1
    /\ [id |-> 2, flow |-> "tweets"] \in finished
    /\ lastEvent.arg = <<<<"a">>>>
    /\ innerHTML["tweetsResults"].who = <<"a">>
    /\ calls = {}

\* C7: in the six flows with a loading indicator, a rejected fetch hides the
\* loading indicator, shows "Error: " followed by the failure description in
\* the flow's error region and ends the call without a request; requests
\* are issued only by a handler run that passed validation, one each.
C7_TransportFailureEndsFlow ==
    [][/\ (lastEvent'.op = "reject" /\ lastEvent'.flow \in ErrFlows)
          => /\ LoadingId[lastEvent'.flow] \notin active'
             /\ ErrorId[lastEvent'.flow] \in active'
             /\ textContent'[ErrorId[lastEvent'.flow]]
                   = <<"Error: ", TransportMessage>>
             /\ \A c \in calls' : c.id # lastEvent'.id
             /\ Cardinality(calls') = Cardinality(calls) - 1
             /\ requests' = requests
       /\ requests' # requests
          => lastEvent'.op = "start" /\ requests' = requests + 1
       /\ lastEvent'.op = "start"
          => /\ requests' = requests + 1
             /\ Cardinality(calls') = Cardinality(calls) + 1]_vars

\* The user comparison's fetch was rejected.
C7_Witness ==
    /\ lastEvent.op = "reject"
    /\ lastEvent.flow = "compareUsers"
    /\ "compareUsersError" \in active
    /\ "compareUsersLoading" \notin active
    /\ textContent["compareUsersError"] = <<"Error: ", "Failed to fetch">>
    /\ requests = 1
    /\ calls = {}

\* Index i of s starts a "status/" that a digit follows.
StatusThenDigitAt(s, i) ==
    /\ i + 7 <= Len(s)
    /\ s[i] = "s" /\ s[i + 1] = "t" /\ s[i + 2] = "a" /\ s[i + 3] = "t"
    /\ s[i + 4] = "u" /\ s[i + 5] = "s" /\ s[i + 6] = "/"
    /\ s[i + 7] \in Digits

\* r is the whole digit run of s that starts at index from.
IsDigitRunFrom(s, from, r) ==
    /\ Len(r) >= 1
    /\ from + Len(r) - 1 <= Len(s)
    /\ \A k \in 1..Len(r) : r[k] \in Digits /\ r[k] = s[from + k - 1]
    /\ from + Len(r) <= Len(s) => s[from + Len(r)] \notin Digits

\* C8: when the input contains "status/" immediately followed by a digit,
\* the result is the digit run that follows the first such "status/";
\* otherwise the result is the input; and applying extractTweetId to its
\* result returns that result.
C8_ExtractTweetId ==
    /\ Len(tout) >= 1 =>
          LET at == {i \in 1..Len(tin) : StatusThenDigitAt(tin, i)}
          IN  IF at = {} THEN tout[1] = tin
              ELSE \E i \in at :
                      /\ \A j \in at : i <= j
                      /\ IsDigitRunFrom(tin, i + 7, tout[1])
    /\ Len(tout) = 2 => tout[2] = tout[1]

\* A two-digit run was extracted from an input that goes on after it, and
\* extracted again.
C8_Witness ==
    /\ Len(tout) = 2
    /\ tin = StatusSlash \o <<"1", "2", "x">>
    /\ tout[1] = <<"1", "2">>
    /\ tout[2] = <<"1", "2">>

\* The step was a sentiment-test segment that renders nothing: empty text,
\* rejected fetch, rejected response.json(), or a success=false response.
TestShowsNothing ==
    /\ lastEvent'.flow = "test"
    /\ \/ lastEvent'.op \in {"empty", "reject", "badjson"}
       \/ lastEvent'.op = "json" /\ ~lastEvent'.data.success

\* C9: the sentiment test with an empty text issues no request; on a
\* rejected request it logs to the console; and in these cases, as for a
\* success=false response, it changes no error region and no result region.
C9_TestSentimentSurfacesNoError ==
    [][TestShowsNothing =>
        /\ UNCHANGED <<active, textContent, innerHTML>>
        /\ lastEvent'.op = "empty"
              => requests' = requests /\ calls' = calls /\ console' = console
        /\ lastEvent'.op \in {"reject", "badjson"}
              => console' = console + 1]_vars

\* A sentiment test was rejected while its earlier result stayed shown.
C9_Witness ==
    /\ lastEvent.flow = "test"
    /\ lastEvent.op = "reject"
    /\ console = 1
    /\ "testResults" \in active
    /\ innerHTML["testResults"].view = "test"

\* C10: a handler run that passed validation leaves the feature's loading
\* indicator active with its call in flight, and whenever no call of a
\* feature is in flight the feature's loading indicator is inactive.
C10_LoadingOnlyWhileInFlight ==
    /\ \A f \in ErrFlows :
          LoadingId[f] \in active => \E c \in calls : c.flow = f
    /\ (lastEvent.op = "start" /\ lastEvent.flow \in ErrFlows)
          => /\ LoadingId[lastEvent.flow] \in active
             /\ \E c \in calls : c.id = lastEvent.id

\* Two overlapping search calls have both returned, the last one through an
\* exception raised while rendering, and the indicator is inactive.
C10_Witness ==
    /\ lastEvent.op = "json"
    /\ lastEvent.flow = "search"
    /\ lastEvent.caught
    /\ finished = {[id |-> 1, flow |-> "search"],
                   [id |-> 2, flow |-> "search"]}
    /\ calls = {}
    /\ "searchLoading" \notin active

\* C11: in every reachable state, for each feature, the feature's error
\* region and its result region are not both active.
C11_ErrorAndResultExclusive ==
    \A f \in ErrFlows :
        ~(ErrorId[f] \in active /\ ResultsId[f] \in active)

====
